---- MODULE Spec2Model ----
(***************************************************************************)
(* A model of score_infinity.py: the latent sampler (randn_sampler), the   *)
(* two activation-pool builders (get_activations, accumulate_activations), *)
(* the two metric primitives (numpy_calculate_frechet_distance,            *)
(* calculate_inception_score) and the four extrapolation entry points      *)
(* (calculate_FID_infinity, calculate_FID_infinity_path,                   *)
(* calculate_IS_infinity, calculate_IS_infinity_path).                     *)
(*                                                                         *)
(* One behaviour of Spec is one use of the library: Init picks the public  *)
(* function that is called and its arguments, the actions are the steps of *)
(* that call.  A Python exception ends the call in pc = "raised" with the  *)
(* exception's class in error; a return ends it in pc = "returned".        *)
(*                                                                         *)
(* External collaborators are opaque: an image is its index in the data    *)
(* set (or in the stream of generated images), the feature extractor maps  *)
(* image i to the pooled-feature entry and the probability entry of image  *)
(* i, torch.randn yields opaque vectors, the scrambled Sobol engine yields *)
(* the terms of its sequence in order, scipy's sqrtm is an oracle whose    *)
(* answer is part of the input.                                            *)
(***************************************************************************)
EXTENDS Integers, Sequences, FiniteSets, TLC

VARIABLES
    call,        \* the public function this behaviour calls
    pc,          \* position in the call
    error,       \* class of the exception raised, "" when none
    args,        \* arguments of the call (a record, fixed by Init)
    z_sampler,   \* the randn_sampler object (fields of self)
    draws,       \* number of draw() calls made on z_sampler
    lastReq,     \* batch_size of the last draw()
    lastRet,     \* what the last draw() returned
    returned,    \* returned[i]: how often draw() has returned Sobol point i
    pool,        \* pooled-feature list / array of the builder or entry point
    logits,      \* probability list / array of the builder or entry point
    batches,     \* batches processed so far by the pool builder
    acts,        \* activations / fake_acts / logits of the entry point
    built,       \* acts as it was right after the pool builder returned
    extracted,   \* number of feature-extractor invocations so far
    ladder,      \* fid_batches / IS_batches
    k,           \* ladder points evaluated so far
    subset,      \* fid_activations / IS_logits of the last ladder point
    scores,      \* fids / IS: the metric values collected so far
    result       \* the returned value

vars == <<call, pc, error, args, z_sampler, draws, lastReq, lastRet, returned,
          pool, logits, batches, acts, built, extracted, ladder, k, subset, scores,
          result>>

(***************************************************************************)
(* Bounds of the model.                                                    *)
(***************************************************************************)
\* size of the block the cached sampler draws on a refill (int(1e6) in the
\* source, scaled down)
RefillBlock == 3
\* draw() calls made on one sampler
MaxDraws == 2
\* images in a data set directory
MaxImages == 4
\* largest batch size of a data loader / generator
MaxBatchSize == 2
\* largest min_fake
MaxMinFake == 2
\* largest num_points
MaxNumPoints == 3
\* largest value a metric primitive returns in the extrapolation loop
MaxMetric == 1
\* largest number of examples in pred of calculate_inception_score
MaxPred == 2

(***************************************************************************)
(* Helpers.                                                                *)
(***************************************************************************)
Min(a, b) == IF a <= b THEN a ELSE b

Range(s) == {s[i] : i \in 1..Len(s)}

IsInjective(s) == \A i, j \in 1..Len(s) : s[i] = s[j] => i = j

Perms(n) == {p \in [1..n -> 1..n] : \A i, j \in 1..n : p[i] = p[j] => i = j}

RECURSIVE SumSeq(_)
SumSeq(s) == IF s = <<>> THEN 0 ELSE Head(s) + SumSeq(Tail(s))

RECURSIVE ProdSeq(_)
ProdSeq(s) == IF s = <<>> THEN 1 ELSE Head(s) * ProdSeq(Tail(s))

\* Python's s[:n] for n >= 0
Prefix(s, n) == SubSeq(s, 1, Min(n, Len(s)))

\* Python's s[n:] for n >= 0
Suffix(s, n) == SubSeq(s, n + 1, Len(s))

\* math.ceil(a / b) for a >= 0, b > 0
CeilDiv(a, b) == (a + b - 1) \div b

(***************************************************************************)
(* randn_sampler                                                           *)
(***************************************************************************)
\* NormalQMCEngine(d=ndim, inv_transform=use_inv): the engine is at position
\* pos of its sequence; use_inv only selects the map to normal space.
NormalQMCEngine(d) == [is_none |-> FALSE, d |-> d, pos |-> 0]

NoEngine == [is_none |-> TRUE, d |-> 0, pos |-> 0]

\* engine.draw(n): the next n terms of the sequence, one vector of dimension
\* d per term; the engine advances by n.
EngineDraw(engine, n) ==
    [engine |-> [engine EXCEPT !.pos = engine.pos + n],
     points |-> [i \in 1..n |-> [src |-> "sobol", idx |-> engine.pos + i, d |-> engine.d]]]

\* torch.randn([batch_size, ndim])
TorchRandn(n, d) == [i \in 1..n |-> [src |-> "randn", idx |-> 0, d |-> d]]

\* randn_sampler.__init__
randn_sampler(ndim, use_sobol, use_inv, cache) ==
    [ndim |-> ndim,
     cache |-> cache,
     sampler |-> IF use_sobol THEN NormalQMCEngine(ndim) ELSE NoEngine,
     cached_points |-> <<>>]

NoneValue == [is_none |-> TRUE, rows |-> <<>>]

Rows(r) == [is_none |-> FALSE, rows |-> r]

\* drawCached with line 62 left out: the points served stay in the buffer
drawCached_NoRemove(self, batch_size, perm) ==
    LET refill == Len(self.cached_points) < batch_size
        block == EngineDraw(self.sampler, RefillBlock)
        cp == IF refill
              THEN [i \in 1..RefillBlock |-> block.points[perm[i]]]
              ELSE self.cached_points
        eng == IF refill THEN block.engine ELSE self.sampler
    IN  [self |-> [self EXCEPT !.sampler = eng, !.cached_points = cp],
         ret |-> Rows(Prefix(cp, batch_size))]

\* randn_sampler.draw; perm is the outcome of torch.randperm(int(1e6)).
\* The result is [self |-> the sampler afterwards, ret |-> the value returned].
drawCached(self, batch_size, perm) ==
    LET refill == Len(self.cached_points) < batch_size
        block == EngineDraw(self.sampler, RefillBlock)
        cp == IF refill
              THEN [i \in 1..RefillBlock |-> block.points[perm[i]]]
              ELSE self.cached_points
        eng == IF refill THEN block.engine ELSE self.sampler
    IN  [self |-> [self EXCEPT !.sampler = eng,
                               !.cached_points = Suffix(cp, batch_size)],
         ret |-> Rows(Prefix(cp, batch_size))]

draw(self, batch_size, perm) ==
    IF self.sampler.is_none
    THEN [self |-> self, ret |-> Rows(TorchRandn(batch_size, self.ndim))]
    ELSE IF self.cache
         THEN drawCached(self, batch_size, perm)
         ELSE \* line 65: the engine is advanced, nothing is returned
              [self |-> [self EXCEPT !.sampler =
                                        EngineDraw(self.sampler, batch_size).engine],
               ret |-> NoneValue]

SobolIdx(rows) == [i \in 1..Len(rows) |-> rows[i].idx]

\* the bookkeeping of what draw() has returned: one count per term of the
\* Sobol sequence that the engine has produced
Returned(old, engine, rows) ==
    [i \in 1..engine.pos |->
        (IF i <= Len(old) THEN old[i] ELSE 0)
        + Cardinality({j \in 1..Len(rows) : rows[j].src = "sobol" /\ rows[j].idx = i})]

(***************************************************************************)
(* Activation pools: get_activations and accumulate_activations            *)
(***************************************************************************)
\* pool_val and F.softmax(logits_val, 1) of the images first..last, one
\* entry per image, in image order
PoolVal(first, last) ==
    [i \in 1..(last - first + 1) |-> [img |-> first + i - 1, kind |-> "pool"]]

Softmax(first, last) ==
    [i \in 1..(last - first + 1) |-> [img |-> first + i - 1, kind |-> "prob"]]

\* number of batches a DataLoader(dataset, batch_size, drop_last=False)
\* yields for a data set of n images
NumBatches(n, batch_size) == CeilDiv(n, batch_size)

\* the images of batch number b (from 0) of that data loader
BatchFirst(b, batch_size) == b * batch_size + 1

BatchLast(b, n, batch_size) == Min(n, (b + 1) * batch_size)

\* line 336: logits = [F.softmax(logits_val, 1)] (the list is replaced)
GetActivationsLogits(old, batch) == batch

(***************************************************************************)
(* The ladder and the regression                                           *)
(***************************************************************************)
\* astype('int32') of the rational p / q, q > 0: truncation towards zero
TruncDiv(p, q) == IF p >= 0 THEN p \div q ELSE -((-p) \div q)

\* fid_batches with endpoint=False: the points divide the range in num steps
\* and the total itself is no ladder point
fid_batches_NoEndpoint(lo, hi, num) ==
    [i \in 1..num |-> TruncDiv(lo * num + (i - 1) * (hi - lo), num)]

\* np.linspace(lo, hi, num).astype('int32'): start + i * (stop - start) /
\* (num - 1) for i = 0..num-1, the last one set to stop, in exact arithmetic
fid_batches(lo, hi, num) ==
    [i \in 1..num |->
        IF num = 1 THEN lo
        ELSE IF i = num THEN hi
        ELSE TruncDiv(lo * (num - 1) + (i - 1) * (hi - lo), num - 1)]

\* the precondition with >= for >
PreconditionHolds_Ge(num_fake, min_fake) == num_fake >= min_fake

\* lines 152 and 250: assert num_fake > min_fake
PreconditionHolds(num_fake, min_fake) == num_fake > min_fake

\* the lowest ladder point of the model-based entry points (lines 103, 209)
MinModelPoint == 5000

\* a resampling with replacement: every row is the row perm[1]
Shuffle_WithReplacement(a, perm) == [i \in 1..Len(a) |-> a[perm[1]]]

\* np.random.shuffle(a): the rows of a rearranged in place by perm
Shuffle(a, perm) == [i \in 1..Len(a) |-> a[perm[i]]]

RECURSIVE Gcd(_, _)
Gcd(a, b) == IF b = 0 THEN a ELSE Gcd(b, a % b)

Abs(a) == IF a < 0 THEN -a ELSE a

\* the rational num / den (den # 0) in lowest terms with a positive
\* denominator, as <<numerator, denominator>>
Rational(num, den) ==
    LET g == Gcd(Abs(num), Abs(den))
        s == IF den < 0 THEN -1 ELSE 1
    IN  <<s * (num \div g), s * (den \div g)>>

\* LinearRegression().fit(1 / sizes, y).predict([[0]])[0, 0]: sklearn
\* centres x and y, solves the least-squares problem for the slope (slope 0
\* when the centred x is all zero) and sets intercept = mean(y) - slope *
\* mean(x); the prediction at 0 is the intercept.  With P the product of the
\* ladder points and X_i = P / N_i, x_i = X_i / P.
LinearRegressionAtZero(sizes, y) ==
    LET n == Len(sizes)
        P == ProdSeq(sizes)
        X == [i \in 1..n |-> P \div sizes[i]]
        SX == SumSeq(X)
        SY == SumSeq(y)
        A == SumSeq([i \in 1..n |-> (n * X[i] - SX) * (n * y[i] - SY)])
        B == SumSeq([i \in 1..n |-> (n * X[i] - SX) * (n * X[i] - SX)])
    IN  IF B = 0 THEN Rational(SY, n) ELSE Rational(SY * B - A * SX, n * B)

(***************************************************************************)
(* numpy_calculate_frechet_distance                                        *)
(***************************************************************************)
\* the attributes of the numpy module that the function looks up and numpy
\* has (atleadt_2d, allcose and tr are looked up too, and are no attributes
\* of numpy)
NumpyNames == {"atleast_1d", "atleast_2d", "eye", "isfinite", "iscomplexobj",
               "diag", "allclose", "max", "abs", "trace"}

NpHas(name) == name \in NumpyNames

\* atol of line 444, in units of 1e-6
Atol == 1000

\* An answer of scipy.linalg.sqrtm: whether all entries are finite, whether
\* the matrix is a complex object, the largest |imaginary part| on the
\* diagonal and in the whole matrix (units of 1e-6), the trace of the real
\* part.
SqrtmResults ==
    {[finite |-> f, complex |-> c, imag_diag |-> d, imag_max |-> m, tr |-> 1] :
        f \in BOOLEAN, c \in BOOLEAN,
        d \in {0, Atol, Atol + 1}, m \in {0, Atol, Atol + 1, Atol + 2}}

WellFormedSqrtm(r) ==
    /\ r.imag_diag <= r.imag_max
    /\ r.imag_max \in {r.imag_diag, Atol + 2}
    /\ ~r.complex => r.imag_max = 0

\* The arguments: the lengths of the mean vectors, the dimensions of the
\* (square) covariance matrices, diff.dot(diff), the traces of the
\* covariances, and the answers of the two sqrtm calls (sqrt2 is the one of
\* line 438, used only when the first answer is not finite).
FrechetInput(a, b, c, d, s1, s2) ==
    [mu1 |-> a, mu2 |-> b, sigma1 |-> c, sigma2 |-> d, diff_sq |-> 1,
     tr1 |-> 1, tr2 |-> 1, sqrt1 |-> s1, sqrt2 |-> s2]

SqrtmAnswers == {r \in SqrtmResults : WellFormedSqrtm(r)}

FrechetInputs ==
    {FrechetInput(a, b, c, d, s1, s2) :
        a \in 1..2, b \in 1..2, c \in 1..2, d \in 1..2,
        s1 \in SqrtmAnswers, s2 \in SqrtmAnswers}

Raise(e, printed) ==
    [raised |-> TRUE, error |-> e, value |-> 0, printed |-> printed, imag |-> 0]

Return(v, printed) ==
    [raised |-> FALSE, error |-> "", value |-> v, printed |-> printed, imag |-> 0]

\* np.allclose(np.diag(covmean).imag, 0, atol=1e-3): |x - 0| <= atol + rtol * 0
AllClose(imag_diag) == imag_diag <= Atol

\* lines 440-453, for the square root covmean
FrechetTail(in, covmean, printed) ==
    IF ~NpHas("iscomplexobj") THEN Raise("AttributeError", printed)
    ELSE IF covmean.complex /\ ~NpHas("allcose") THEN Raise("AttributeError", printed)
    ELSE IF covmean.complex /\ ~AllClose(covmean.imag_diag)
         THEN [Raise("ValueError", printed) EXCEPT !.imag = covmean.imag_max]
    ELSE IF ~NpHas("tr") THEN Raise("AttributeError", printed)
    ELSE Return(in.diff_sq + in.tr1 + in.tr2 - 2 * covmean.tr, printed)

\* lines 419-453
numpy_calculate_frechet_distance(in) ==
    IF ~NpHas("atleast_1d") \/ ~NpHas("atleast_2d") THEN Raise("AttributeError", FALSE)
    ELSE IF ~NpHas("atleadt_2d") THEN Raise("AttributeError", FALSE)
    ELSE IF in.mu1 # in.mu2 THEN Raise("AssertionError", FALSE)
    ELSE IF in.sigma1 # in.sigma2 THEN Raise("AssertionError", FALSE)
    ELSE IF ~NpHas("isfinite") THEN Raise("AttributeError", FALSE)
    ELSE IF ~in.sqrt1.finite
         THEN \* lines 434-438: the message is printed, sqrtm is called again
              IF ~NpHas("eye") THEN Raise("AttributeError", TRUE)
              ELSE FrechetTail(in, in.sqrt2, TRUE)
    ELSE FrechetTail(in, in.sqrt1, FALSE)

(***************************************************************************)
(* calculate_inception_score                                               *)
(***************************************************************************)
\* A probability is a power of two, 2^(-e), written as its exponent e >= 0,
\* so that its logarithm to base 2 is the integer -e.  A probability vector
\* is a sequence of exponents whose probabilities sum to 1.
Pow2(e) == 2 ^ e

\* the probability 2^(-e), in eighths
Eighths(e) == Pow2(3 - e)

\* the probability vectors over four classes with entries 1/2, 1/4 and 1/8
ProbVectors ==
    {v \in [1..4 -> 1..3] : SumSeq([c \in 1..4 |-> Eighths(v[c])]) = 8}

\* pred.shape[1]
NumClasses(pred) == IF pred = <<>> THEN 0 ELSE Len(pred[1])

\* log2(a / b) for a / b a power of two
Log2Ratio(a, b) ==
    CHOOSE m \in -16..16 : IF m >= 0 THEN a = b * Pow2(m) ELSE a * Pow2(-m) = b

\* pred[index * (n // num_splits) : (index + 1) * (n // num_splits), :]
PredChunk(pred, index, num_splits) ==
    LET size == Len(pred) \div num_splits
    IN  SubSeq(pred, index * size + 1, Min((index + 1) * size, Len(pred)))

\* log2 of np.mean(pred_chunk): the mean of all entries of the chunk, over
\* examples and classes alike (no axis is given)
LogMean(chunk) ==
    LET total == SumSeq([i \in 1..Len(chunk) |->
                    SumSeq([c \in 1..NumClasses(chunk) |-> Eighths(chunk[i][c])])])
    IN  Log2Ratio(total, 8 * Len(chunk) * NumClasses(chunk))

\* lines 395-397 for one chunk: log2 of exp(mean_i sum_c p * (log p - log
\* mean)), a rational, as Rational(numerator, denominator)
ChunkLogScore(chunk) ==
    LET m == LogMean(chunk)
        kl == [i \in 1..Len(chunk) |->
                 SumSeq([c \in 1..NumClasses(chunk) |->
                    Eighths(chunk[i][c]) * ((0 - chunk[i][c]) - m)])]
    IN  Rational(SumSeq(kl), 8 * Len(chunk))

\* calculate_inception_score(pred, num_splits): the scores of the chunks, each
\* as the base-2 logarithm of the score (scores[i] is 1.0 exactly when its
\* logarithm is <<0, 1>>); for num_splits = 1, np.mean(scores) is scores[0]
\* and np.std(scores) is 0.
calculate_inception_score(pred, num_splits) ==
    [index \in 1..num_splits |-> ChunkLogScore(PredChunk(pred, index - 1, num_splits))]

(***************************************************************************)
(* Initial states.                                                         *)
(***************************************************************************)
\* the latent dimensions
NdimChoices == {1, 2}

SamplerArgs ==
    {[use_sobol |-> s, cache |-> c, ndim |-> d] :
        s \in BOOLEAN, c \in BOOLEAN, d \in NdimChoices}

AccumulateArgs ==
    {[use_sobol |-> s, cache |-> c, ndim |-> d, num_im |-> n, batch_size |-> b] :
        s \in BOOLEAN, c \in BOOLEAN, d \in NdimChoices,
        n \in 1..MaxImages, b \in 1..MaxBatchSize}

\* a data loader over a directory of num_images images
LoaderArgs ==
    {[num_images |-> n, batch_size |-> b] :
        n \in 0..MaxImages, b \in 1..MaxBatchSize}

\* num_im of the model-based entry points: around the lowest ladder point,
\* and the default
ModelArgs ==
    {[ndim |-> d, batch_size |-> b, num_im |-> n, num_points |-> p] :
        d \in NdimChoices, b \in 1..MaxBatchSize,
        n \in {MinModelPoint - 1, MinModelPoint, MinModelPoint + 1, 50000},
        p \in 2..MaxNumPoints}

\* the path-based entry points: fake_path / path holds num_images images
PathArgs ==
    {[num_images |-> n, batch_size |-> b, min_fake |-> m, num_points |-> p] :
        n \in 0..MaxImages, b \in 1..MaxBatchSize, m \in 1..MaxMinFake,
        p \in 2..MaxNumPoints}

FrechetArgs == {[in |-> x] : x \in FrechetInputs}

ScoreArgs ==
    {[pred |-> x, num_splits |-> 1] :
        x \in UNION {[1..n -> ProbVectors] : n \in 1..MaxPred}}

ModelBased == {"calculate_FID_infinity", "calculate_IS_infinity"}

PathBased == {"calculate_FID_infinity_path", "calculate_IS_infinity_path"}

EntryPoints == ModelBased \cup PathBased

Builders == {"get_activations", "accumulate_activations"}

NoSampler == randn_sampler(0, FALSE, TRUE, FALSE)

Idle(c, a) ==
    /\ call = c
    /\ args = a
    /\ pc = "start"
    /\ error = ""
    /\ draws = 0
    /\ lastReq = 0
    /\ lastRet = NoneValue
    /\ returned = <<>>
    /\ pool = <<>>
    /\ logits = <<>>
    /\ batches = 0
    /\ acts = <<>>
    /\ built = <<>>
    /\ extracted = 0
    /\ ladder = <<>>
    /\ k = 0
    /\ subset = <<>>
    /\ scores = <<>>
    /\ result = <<>>

Init ==
    \/ \E a \in SamplerArgs :
          /\ Idle("randn_sampler", a)
          /\ z_sampler = randn_sampler(a.ndim, a.use_sobol, TRUE, a.cache)
    \/ \E a \in AccumulateArgs :
          /\ Idle("accumulate_activations", a)
          /\ z_sampler = randn_sampler(a.ndim, a.use_sobol, TRUE, a.cache)
    \/ \E a \in LoaderArgs : Idle("get_activations", a) /\ z_sampler = NoSampler
    \/ \E c \in ModelBased, a \in ModelArgs : Idle(c, a) /\ z_sampler = NoSampler
    \/ \E c \in PathBased, a \in PathArgs : Idle(c, a) /\ z_sampler = NoSampler
    \/ \E a \in FrechetArgs :
          Idle("numpy_calculate_frechet_distance", a) /\ z_sampler = NoSampler
    \/ \E a \in ScoreArgs :
          Idle("calculate_inception_score", a) /\ z_sampler = NoSampler

(***************************************************************************)
(* Actions.                                                                *)
(***************************************************************************)
\* one z = sampler.draw(batch_size) on a sampler built by the caller
Draw ==
    /\ call = "randn_sampler"
    /\ draws < MaxDraws
    /\ \E n \in 1..(RefillBlock + 1), perm \in Perms(RefillBlock) :
          LET d == draw(z_sampler, n, perm)
          IN  /\ z_sampler' = d.self
              /\ lastReq' = n
              /\ lastRet' = d.ret
              /\ returned' = Returned(returned, d.self.sampler, d.ret.rows)
    /\ draws' = draws + 1
    /\ UNCHANGED <<call, pc, error, args, pool, logits, batches, acts, built,
                   extracted, ladder, k, subset, scores, result>>

Raised(e) == pc' = "raised" /\ error' = e

\* lines 91-97: the sampler is built, accumulate_activations is called with
\* four arguments for its five parameters
calculate_FID_infinity_start ==
    /\ call = "calculate_FID_infinity"
    /\ pc = "start"
    /\ z_sampler' = randn_sampler(args.ndim, TRUE, TRUE, FALSE)
    /\ Raised("TypeError")
    /\ UNCHANGED <<call, args, draws, lastReq, lastRet, returned, pool, logits,
                   batches, acts, built, extracted, ladder, k, subset, scores,
                   result>>

\* lines 197-203 up to the entry of accumulate_activations
calculate_IS_infinity_start ==
    /\ call = "calculate_IS_infinity"
    /\ pc = "start"
    /\ z_sampler' = randn_sampler(args.ndim, TRUE, TRUE, FALSE)
    /\ pc' = "accumulate"
    /\ UNCHANGED <<call, error, args, draws, lastReq, lastRet, returned, pool,
                   logits, batches, acts, built, extracted, ladder, k, subset,
                   scores, result>>

\* lines 140-149 and 244-247 up to the entry of get_activations (the
\* statistics of the real data are those of a collaborator); a direct call
\* of a pool builder enters its loop as well
StartLoop ==
    /\ call \in PathBased \cup Builders
    /\ pc = "start"
    /\ pc' = IF call = "accumulate_activations" THEN "accumulate"
             ELSE "get_activations"
    /\ UNCHANGED <<call, error, args, z_sampler, draws, lastReq, lastRet,
                   returned, pool, logits, batches, acts, built, extracted,
                   ladder, k, subset, scores, result>>

\* lines 329-336: one iteration of the loop of get_activations
GetActivationsBatch ==
    /\ pc = "get_activations"
    /\ batches < NumBatches(args.num_images, args.batch_size)
    /\ LET first == BatchFirst(batches, args.batch_size)
           last == BatchLast(batches, args.num_images, args.batch_size)
       IN  /\ pool' = pool \o PoolVal(first, last)
           /\ logits' = GetActivationsLogits(logits, Softmax(first, last))
    /\ batches' = batches + 1
    /\ extracted' = extracted + 1
    /\ UNCHANGED <<call, pc, error, args, z_sampler, draws, lastReq, lastRet,
                   returned, acts, built, ladder, k, subset, scores, result>>

\* line 337, and the assignment of the caller (lines 149, 247): torch.cat
\* raises on an empty list
GetActivationsReturn ==
    /\ pc = "get_activations"
    /\ batches = NumBatches(args.num_images, args.batch_size)
    /\ IF batches = 0
       THEN Raised("RuntimeError") /\ UNCHANGED <<acts, built, result>>
       ELSE /\ error' = error
            /\ pc' = IF call = "get_activations" THEN "returned" ELSE "pool_built"
            /\ result' = IF call = "get_activations" THEN <<pool, logits>> ELSE result
            /\ acts' = IF call = "calculate_FID_infinity_path" THEN pool
                       ELSE IF call = "calculate_IS_infinity_path" THEN logits
                       ELSE acts
            /\ built' = acts'
    /\ UNCHANGED <<call, args, z_sampler, draws, lastReq, lastRet, returned,
                   pool, logits, batches, extracted, ladder, k, subset, scores>>

\* lines 347-353: one iteration of the loop of accumulate_activations; None
\* has no attribute cuda
AccumulateBatch ==
    /\ pc = "accumulate"
    /\ batches < CeilDiv(args.num_im, args.batch_size)
    /\ \E perm \in Perms(RefillBlock) :
          LET d == draw(z_sampler, args.batch_size, perm)
              n == Len(d.ret.rows)
          IN  /\ z_sampler' = d.self
              /\ lastReq' = args.batch_size
              /\ lastRet' = d.ret
              /\ draws' = draws + 1
              /\ returned' = Returned(returned, d.self.sampler, d.ret.rows)
              /\ IF d.ret.is_none
                 THEN /\ Raised("AttributeError")
                      /\ UNCHANGED <<pool, logits, batches, extracted>>
                 ELSE /\ pool' = pool \o PoolVal(Len(pool) + 1, Len(pool) + n)
                      /\ logits' = logits \o Softmax(Len(pool) + 1, Len(pool) + n)
                      /\ batches' = batches + 1
                      /\ extracted' = extracted + 1
                      /\ UNCHANGED <<pc, error>>
    /\ UNCHANGED <<call, args, acts, built, ladder, k, subset, scores, result>>

\* lines 355-356: pool becomes a tensor of num_im rows at most; torch.cat is
\* then given that tensor where it takes a sequence of tensors
AccumulateReturn ==
    /\ pc = "accumulate"
    /\ batches = CeilDiv(args.num_im, args.batch_size)
    /\ pool' = Prefix(pool, args.num_im)
    /\ Raised("TypeError")
    /\ UNCHANGED <<call, args, z_sampler, draws, lastReq, lastRet, returned,
                   logits, batches, acts, built, extracted, ladder, k, subset,
                   scores, result>>

\* the total sample count and the lowest ladder point of an entry point
Total == IF call \in ModelBased THEN args.num_im ELSE Len(acts)

Minimum == IF call \in ModelBased THEN MinModelPoint ELSE args.min_fake

\* lines 100-103, 151-158, 206-209, 249-256: the precondition (path-based
\* entry points only) and the ladder
BuildLadder ==
    /\ pc = "pool_built"
    /\ IF call \in PathBased /\ ~PreconditionHolds(Len(acts), args.min_fake)
       THEN Raised("AssertionError") /\ UNCHANGED ladder
       ELSE /\ ladder' = fid_batches(Minimum, Total, args.num_points)
            /\ pc' = "ladder"
            /\ error' = error
    /\ UNCHANGED <<call, args, z_sampler, draws, lastReq, lastRet, returned,
                   pool, logits, batches, acts, built, extracted, k, subset,
                   scores, result>>

\* lines 106-109, 161-167, 212-215, 259-263: one ladder point.  The array is
\* shuffled in place and its first N rows are the subset.  FID_N is the
\* Frechet distance of the subset's moments and the real moments, which
\* have the same shapes (the answers of sqrtm are inputs); IS_N is the inception score of the subset, an opaque number here.
LadderPoint ==
    /\ pc = "ladder"
    /\ k < Len(ladder)
    /\ k' = k + 1
    /\ \E perm \in Perms(Len(acts)) :
          /\ acts' = Shuffle(acts, perm)
          /\ subset' = Prefix(acts', ladder[k + 1])
    /\ IF call \in {"calculate_FID_infinity", "calculate_FID_infinity_path"}
       THEN \E s1 \in SqrtmAnswers, s2 \in SqrtmAnswers :
               LET fid == numpy_calculate_frechet_distance(
                              FrechetInput(1, 1, 1, 1, s1, s2))
               IN  IF fid.raised
                   THEN Raised(fid.error) /\ UNCHANGED scores
                   ELSE /\ scores' = Append(scores, fid.value)
                        /\ UNCHANGED <<pc, error>>
       ELSE \E v \in 0..MaxMetric :
               /\ scores' = Append(scores, v)
               /\ UNCHANGED <<pc, error>>
    /\ UNCHANGED <<call, args, z_sampler, draws, lastReq, lastRet, returned,
                   pool, logits, batches, built, extracted, ladder, result>>

\* lines 111-118, 168-175, 217-224, 264-270: the fit and the prediction at 0.
\* calculate_IS_infinity drops the reshaped array (line 217), fits on the
\* list, and indexes the one-dimensional prediction with [0, 0].
Fit ==
    /\ pc = "ladder"
    /\ k = Len(ladder)
    /\ IF call = "calculate_IS_infinity"
       THEN Raised("IndexError") /\ UNCHANGED result
       ELSE /\ result' = LinearRegressionAtZero(ladder, scores)
            /\ pc' = "returned"
            /\ error' = error
    /\ UNCHANGED <<call, args, z_sampler, draws, lastReq, lastRet, returned,
                   pool, logits, batches, acts, built, extracted, ladder, k,
                   subset, scores>>

\* a call of numpy_calculate_frechet_distance
FrechetCall ==
    /\ call = "numpy_calculate_frechet_distance"
    /\ pc = "start"
    /\ LET out == numpy_calculate_frechet_distance(args.in)
       IN  /\ result' = <<out>>
           /\ pc' = IF out.raised THEN "raised" ELSE "returned"
           /\ error' = out.error
    /\ UNCHANGED <<call, args, z_sampler, draws, lastReq, lastRet, returned,
                   pool, logits, batches, acts, built, extracted, ladder, k,
                   subset, scores>>

\* a call of calculate_inception_score
ScoreCall ==
    /\ call = "calculate_inception_score"
    /\ pc = "start"
    /\ result' = calculate_inception_score(args.pred, args.num_splits)
    /\ pc' = "returned"
    /\ UNCHANGED <<call, error, args, z_sampler, draws, lastReq, lastRet,
                   returned, pool, logits, batches, acts, built, extracted,
                   ladder, k, subset, scores>>

Next ==
    \/ Draw
    \/ calculate_FID_infinity_start
    \/ calculate_IS_infinity_start
    \/ StartLoop
    \/ GetActivationsBatch
    \/ GetActivationsReturn
    \/ AccumulateBatch
    \/ AccumulateReturn
    \/ BuildLadder
    \/ LadderPoint
    \/ Fit
    \/ FrechetCall
    \/ ScoreCall


Spec == Init /\ [][Next]_vars

(***************************************************************************)
(* The claims.                                                             *)
(***************************************************************************)
\* the total available sample count of an entry point: num_im, or the
\* number of fake images
Available == IF call \in ModelBased THEN args.num_im ELSE args.num_images

\* the pool-building phase of a call
Building == pc \in {"start", "accumulate", "get_activations"}

\* a is the value at x = 0 of the least-squares line through the points
\* (1 / sizes[i], y[i]): the solution of the normal equations, for points
\* that are not all at the same x.  With P the product of the sizes and
\* X_i = P / sizes[i]:  a * (n * SXX - SX^2) = SY * SXX - SX * SXY.
IsOLSIntercept(a, sizes, y) ==
    LET n == Len(sizes)
        P == ProdSeq(sizes)
        X == [i \in 1..n |-> P \div sizes[i]]
        SX == SumSeq(X)
        SY == SumSeq(y)
        SXX == SumSeq([i \in 1..n |-> X[i] * X[i]])
        SXY == SumSeq([i \in 1..n |-> X[i] * y[i]])
    IN  /\ n * SXX - SX * SX # 0
        /\ a[1] * (n * SXX - SX * SX) = a[2] * (SY * SXX - SX * SXY)

\* C1: every entry point, called with valid inputs and more samples than the
\* lowest ladder point, completes without raising and returns the value at
\* 1/N = 0 of the least-squares line through exactly num_points pairs
\* (1/N_i, metric_i), one per ladder point in ladder order.
C1_ReturnsOLSIntercept ==
    (call \in EntryPoints /\ Available > Minimum) =>
        /\ pc # "raised"
        /\ pc = "returned" =>
              /\ Len(ladder) = args.num_points
              /\ Len(scores) = args.num_points
              /\ IsOLSIntercept(result, ladder, scores)

StrictlyIncreasing(s) == \A i \in 1..(Len(s) - 1) : s[i] < s[i + 1]

NonDecreasing(s) == \A i \in 1..(Len(s) - 1) : s[i] <= s[i + 1]

\* C2 (as claimed): for minimum < total and num_points >= 2 the ladder is
\* num_points strictly increasing integers from the minimum to the total.
C2_LadderStrictlyIncreasing ==
    pc = "ladder" =>
        /\ Len(ladder) = args.num_points
        /\ ladder[1] = Minimum
        /\ ladder[Len(ladder)] = Total
        /\ StrictlyIncreasing(ladder)

\* C2 (amended): for minimum < total and num_points >= 2 the ladder is
\* num_points non-decreasing integers from the minimum to the total, and it
\* is strictly increasing exactly when total - minimum >= num_points - 1;
\* min_fake = 5000, total = 50000, num_points = 15 gives 15 strictly
\* increasing integers from 5000 to 50000.
C2_LadderAmended ==
    /\ pc = "ladder" =>
          /\ Minimum < Total
          /\ Len(ladder) = args.num_points
          /\ ladder[1] = Minimum
          /\ ladder[Len(ladder)] = Total
          /\ NonDecreasing(ladder)
          /\ StrictlyIncreasing(ladder) <=> Total - Minimum >= args.num_points - 1
    /\ LET l == fid_batches(MinModelPoint, 50000, 15)
       IN  Len(l) = 15 /\ l[1] = MinModelPoint /\ l[15] = 50000 /\ StrictlyIncreasing(l)

\* a ladder of three strictly increasing points whose middle point was
\* truncated to an integer
C2_Witness ==
    /\ pc = "ladder"
    /\ Len(ladder) = 3
    /\ StrictlyIncreasing(ladder)
    /\ ladder[2] - ladder[1] # ladder[3] - ladder[2]

\* C3: when the total available sample count does not exceed the lowest
\* ladder point, the call of an entry point ends in an error that is raised
\* before any metric value is computed: no ladder point is evaluated and
\* nothing is returned.
C3_FailsBeforeAnyMetric ==
    (call \in EntryPoints /\ Available <= Minimum) =>
        /\ k = 0
        /\ scores = <<>>
        /\ subset = <<>>
        /\ result = <<>>
        /\ Building \/ pc = "pool_built" \/ pc = "raised"
        /\ pc # "raised" => ENABLED Next

\* the path-based precondition has failed with the assertion's error
C3_Witness ==
    /\ call \in PathBased
    /\ args.num_images >= 1
    /\ Available <= Minimum
    /\ pc = "raised"
    /\ error = "AssertionError"
    /\ scores = <<>>

\* the number of feature-extractor invocations that build the pool
PoolPasses ==
    IF call \in ModelBased THEN CeilDiv(args.num_im, args.batch_size)
    ELSE NumBatches(args.num_images, args.batch_size)

Covmean(in) == IF in.sqrt1.finite THEN in.sqrt1 ELSE in.sqrt2

\* C5: with mean vectors of equal shape and covariances of equal shape,
\* numpy_calculate_frechet_distance either returns the distance computed
\* from the real part of the square root (the retry with eps on the diagonal
\* being reported by a printed message), or raises the ValueError that
\* carries the largest imaginary magnitude; it raises no other error.
C5_FrechetOutcomes ==
    (/\ call = "numpy_calculate_frechet_distance"
     /\ pc # "start"
     /\ args.in.mu1 = args.in.mu2
     /\ args.in.sigma1 = args.in.sigma2) =>
        LET in == args.in
            out == result[1]
            root == Covmean(in)
            unstable == root.complex /\ root.imag_diag > Atol
        IN  /\ out.printed <=> ~in.sqrt1.finite
            /\ IF unstable
               THEN out.raised /\ out.error = "ValueError" /\ out.imag = root.imag_max
               ELSE /\ ~out.raised
                    /\ out.value = in.diff_sq + in.tr1 + in.tr2 - 2 * root.tr

\* C6: when all examples of the batch have the same probability vector the
\* returned score is exactly 1.0 (its logarithm is 0).
C6_IdenticalRowsScoreOne ==
    (/\ call = "calculate_inception_score"
     /\ pc = "returned"
     /\ \A i, j \in 1..Len(args.pred) : args.pred[i] = args.pred[j]) =>
        result[1] = <<0, 1>>

\* C7: in every sampler mode and after any sequence of earlier draws,
\* draw(n) returns exactly n latent vectors, each of dimension ndim.
C7_DrawReturnsN ==
    (call = "randn_sampler" /\ draws >= 1) =>
        /\ ~lastRet.is_none
        /\ Len(lastRet.rows) = lastReq
        /\ \A i \in 1..Len(lastRet.rows) : lastRet.rows[i].d = z_sampler.ndim

CachedMode == ~z_sampler.sampler.is_none /\ z_sampler.cache

\* no Sobol point has been returned twice, and none that was returned is
\* still in the buffer
C8_Disjoint ==
    CachedMode =>
        /\ \A i \in 1..Len(returned) : returned[i] <= 1
        /\ IsInjective(z_sampler.cached_points)
        /\ \A j \in 1..Len(z_sampler.cached_points) :
              returned[z_sampler.cached_points[j].idx] = 0

\* a draw refills the buffer with a fresh block exactly when the buffer
\* holds fewer points than requested, and takes what it returns off the
\* front of the buffer
C8_DrawStep ==
    (CachedMode /\ draws' = draws + 1) =>
        LET refill == Len(z_sampler.cached_points) < lastReq'
            pos == z_sampler.sampler.pos
            served == lastRet'.rows \o z_sampler'.cached_points
        IN  /\ ~lastRet'.is_none
            /\ (z_sampler'.sampler.pos # pos) <=> refill
            /\ IF refill
               THEN /\ z_sampler'.sampler.pos = pos + RefillBlock
                    /\ Len(served) = RefillBlock
                    /\ Range(SobolIdx(served)) = (pos + 1)..(pos + RefillBlock)
               ELSE served = z_sampler.cached_points
            /\ Len(lastRet'.rows) = Min(lastReq', Len(served))
            /\ IsInjective(lastRet'.rows)
            /\ \A i \in 1..Len(returned') :
                  returned'[i] = (IF i <= Len(returned) THEN returned[i] ELSE 0)
                      + (IF i \in Range(SobolIdx(lastRet'.rows)) THEN 1 ELSE 0)

\* C8: in cached quasi-random mode no sequence point is returned more than
\* once, within a draw or by two draws: a draw refills the buffer with a
\* fresh, permuted block exactly when the buffer holds fewer points than
\* requested, and removes from the front of the buffer the points it returns.
C8_NoPointTwice == []C8_Disjoint /\ [][C8_DrawStep]_vars

\* two consecutive draws of one point each, together less than the block
C8_Witness ==
    /\ call = "randn_sampler"
    /\ CachedMode
    /\ draws = 2
    /\ lastReq = 1
    /\ SumSeq(returned) = 2
    /\ RefillBlock > 2
    /\ Len(z_sampler.cached_points) = RefillBlock - 2

\* the number of images a pool builder is asked for
Target ==
    IF call = "get_activations" THEN args.num_images ELSE args.num_im

\* C9: a pool builder returns two parallel sequences, one pooled-feature
\* vector and one probability vector per image, in the same image order:
\* num_im of each from accumulate_activations, as many of each as the data
\* loader yields images from get_activations (for a sampler whose draw
\* returns vectors).
C9_ParallelPool ==
    (/\ call \in Builders
     /\ ~Building
     /\ Target >= 1
     /\ call = "accumulate_activations" => (args.cache \/ ~args.use_sobol)) =>
        /\ pc = "returned"
        /\ Len(result[1]) = Target
        /\ Len(result[2]) = Target
        /\ \A i \in 1..Target :
              /\ result[1][i] = [img |-> i, kind |-> "pool"]
              /\ result[2][i] = [img |-> i, kind |-> "prob"]

\* C10: once the pool of an extrapolation call is built no ladder point
\* changes it: its entries and their order stay as they were built.
C10_PoolUnchanged ==
    call \in EntryPoints => acts = built

====
